---- MODULE Spec2Model ----
(***************************************************************************)
(* Model of the Modbus RTU request decoder of modbus-rs                    *)
(* (src/src/modbus.rs, request.rs, general.rs, consts.rs, data.rs).        *)
(*                                                                         *)
(* The byte pipe is the bbqueue BBBuffer the crate is built on: its        *)
(* Producer/Consumer operations are modelled at the places modbus.rs       *)
(* calls them (grant_exact, commit, read, to_release, drop of a grant).    *)
(***************************************************************************)
EXTENDS Integers, Sequences, FiniteSets, TLC

VARIABLES
    buf,              \* BBBuffer storage: cell index 0..RingSize-1 -> byte
    write,            \* BBBuffer write cursor (producer)
    read,             \* BBBuffer read cursor (consumer)
    last,             \* BBBuffer high watermark
    read_in_progress, \* BBBuffer flag: a read grant is outstanding
    waker,            \* Modbus.waker : Option<Waker>
    needed_bytes,     \* Modbus.needed_bytes : Option<usize>
    panicked,         \* the program hit panic!() / unimplemented!()
    pc,               \* consumer task: "idle" | "suspended" | "holding"
    held,             \* the read grant owned by a live CoilStore/RegisterStore
    results,          \* history: what next() has returned so far
    wire,             \* the frames the serial line delivers (catalogue indices)
    sent,             \* number of wire bytes handed to on_data_received
    tag,              \* history: cell index -> wire offset of the byte stored there
    feed,             \* history: how the wire was ingested: "none" | "single" (one chunk) |
                      \*   "split" (several chunks) | "early" (next() was polled before the end)
    cx,               \* history: the waker of the latest poll of the suspended pull
    ev                \* history: the last operation and what it observed

vars == <<buf, write, read, last, read_in_progress, waker, needed_bytes,
          panicked, pc, held, results, wire, sent, tag, feed, cx, ev>>

----------------------------------------------------------------------------
(* Bounds of the model *)

\* capacity N of the BBBuffer (the tests use U2048)
RingSize == 20
\* number of bytes the serial line delivers in all
MaxWire == 23
\* longest slice handed to parse_request_len on its own
MaxSlice == 8
\* number of results the consumer of the draft lib.rs takes
MaxPulls == 3
\* longest generated body handed to crc_valid on its own
MaxCrcBody == 2
\* largest quantity of outputs of the function-15 frames of CoilFrames
MaxCoilCount == 96

----------------------------------------------------------------------------
(* consts.rs *)

READ_COIL == 1
SET_REGISTER == 6
SET_COILS == 15
SET_REGISTERS == 16

----------------------------------------------------------------------------
(* Option / Result *)

None == <<>>
Some(x) == <<x>>
IsSome(o) == Len(o) = 1
Unwrap(o) == o[1]

Ok(v) == <<"Ok", v>>
Err(e) == <<"Err", e>>
IsOk(r) == r[1] = "Ok"
IsErr(r) == r[1] = "Err"

Crc == <<"Crc">>
UnknownFunction(f) == <<"UnknownFunction", f>>

Min(a, b) == IF a <= b THEN a ELSE b

----------------------------------------------------------------------------
(* general.rs: crc16::State::<MODBUS>::calculate                           *)
(* CRC-16/MODBUS: init 0xFFFF, reflected polynomial 0xA001, no final xor.  *)

RECURSIVE Xor8(_, _, _)
Xor8(a, b, n) ==
    IF n = 0 THEN 0
    ELSE (((a % 2) + (b % 2)) % 2) + 2 * Xor8(a \div 2, b \div 2, n - 1)

\* x with bit k flipped
FlipBit(x, k) ==
    IF (x \div (2 ^ k)) % 2 = 1 THEN x - 2 ^ k ELSE x + 2 ^ k

\* x xor 0xA001 (bits 15, 13 and 0)
XorPoly(x) == FlipBit(FlipBit(FlipBit(x, 0), 13), 15)

\* (the test c < 0 never holds: it only makes TLC evaluate c before it recurses)
RECURSIVE CrcShift(_, _)
CrcShift(c, n) ==
    IF n = 0 \/ c < 0 THEN c
    ELSE CrcShift(IF c % 2 = 1 THEN XorPoly(c \div 2) ELSE c \div 2, n - 1)

\* the lookup table of the reflected CRC: entry i is i shifted out 8 times
\* (kept as a tuple, entry i at position i + 1)
CrcTable == [i \in 1..256 |-> CrcShift(i - 1, 8)] \o <<>>

\* crc = (crc >> 8) ^ TABLE[(crc ^ byte) & 0xFF]
CrcUpdate(c, byte) ==
    LET t == CrcTable[Xor8(c % 256, byte, 8) + 1]
    IN  (t - (t % 256)) + Xor8(t % 256, c \div 256, 8)

RECURSIVE CrcFrom(_, _, _)
CrcFrom(c, data, i) ==
    IF i > Len(data) \/ c < 0 THEN c ELSE CrcFrom(CrcUpdate(c, data[i]), data, i + 1)

crc16_modbus(data) == CrcFrom(65535, data, 1)

\* a check that accepts every trailer
crc_valid_nocheck(data) == TRUE

\* a check that reads the trailer high byte first
crc_valid_big_endian(data) ==
    LET n == Len(data)
    IN  n >= 2 /\ crc16_modbus(SubSeq(data, 1, n - 2)) = 256 * data[n - 1] + data[n]

crc_valid(data) == crc16_modbus(data) = 0

----------------------------------------------------------------------------
(* request.rs: RequestFrame::parse_request_len *)

\* the length of a multi-write frame taken one byte short
parse_request_len_short(data) ==
    IF Len(data) < 2 THEN Ok(None)
    ELSE LET fn_code == data[2] IN
         IF fn_code >= READ_COIL /\ fn_code <= SET_REGISTER THEN Ok(Some(8))
         ELSE IF fn_code = SET_COILS \/ fn_code = SET_REGISTERS
              THEN IF Len(data) > 6 THEN Ok(Some(8 + data[7])) ELSE Ok(None)
              ELSE Err(UnknownFunction(fn_code))

\* the length of a multi-write frame taken without its byte count
parse_request_len_header(data) ==
    IF Len(data) < 2 THEN Ok(None)
    ELSE LET fn_code == data[2] IN
         IF fn_code >= READ_COIL /\ fn_code <= SET_REGISTER THEN Ok(Some(8))
         ELSE IF fn_code = SET_COILS \/ fn_code = SET_REGISTERS
              THEN IF Len(data) > 6 THEN Ok(Some(9)) ELSE Ok(None)
              ELSE Err(UnknownFunction(fn_code))

parse_request_len(data) ==
    IF Len(data) < 2 THEN Ok(None)
    ELSE LET fn_code == data[2] IN
         IF fn_code >= READ_COIL /\ fn_code <= SET_REGISTER THEN Ok(Some(8))
         ELSE IF fn_code = SET_COILS \/ fn_code = SET_REGISTERS
              THEN IF Len(data) > 6 THEN Ok(Some(9 + data[7])) ELSE Ok(None)
              ELSE Err(UnknownFunction(fn_code))

----------------------------------------------------------------------------
(* request.rs: RequestFrame::parse_read_request and RequestFrame::parse_frame *)

\* the bytes taken low byte first
from_le_bytes(hi, lo) == lo * 256 + hi

\* u16::from_be_bytes
from_be_bytes(hi, lo) == hi * 256 + lo

\* data[a..b] of a Rust slice held as a 1-based sequence (a inclusive, b exclusive)
Slice(data, a, b) == SubSeq(data, a + 1, b)

\* the two fields taken in the other order
parse_read_request_swapped(data) ==
    <<from_be_bytes(data[3], data[4]), from_be_bytes(data[1], data[2])>>

parse_read_request(data) ==
    <<from_be_bytes(data[1], data[2]), from_be_bytes(data[3], data[4])>>

\* a grant that is dropped without the frame marked as read
to_release_nothing(len, amt) == 0

\* a grant that is marked as read to its end
to_release_whole_grant(len, amt) == len

\* AutoReleaseGrantR::to_release saturates at the length of the grant
to_release(len, amt) == Min(len, amt)

RequestFrame(slave_id, request) == [slave_id |-> slave_id, request |-> request]

\* rgr: the bytes of the read grant.  The result, whether the grant moves
\* into the returned frame (keeps), and otherwise the number of bytes its
\* drop releases on return (rel).
parse_frame_request(rgr, frame_len) ==
    LET slave_id == rgr[1]
        function_id == rgr[2]
        data == Slice(rgr, 2, frame_len)
        ac == parse_read_request(data)
        \* rgr.to_release(frame_len), applied when the grant is dropped
        rel == to_release(Len(rgr), frame_len)
        store == [data |-> rgr, to_release |-> rel]
    IN  CASE function_id = 1 ->
               [res |-> Ok(RequestFrame(slave_id,
                    [variant |-> "ReadCoil", address |-> ac[1], count |-> ac[2]])),
                keeps |-> FALSE, rel |-> rel]
          [] function_id = 2 ->
               [res |-> Ok(RequestFrame(slave_id,
                    [variant |-> "ReadInput", address |-> ac[1], count |-> ac[2]])),
                keeps |-> FALSE, rel |-> rel]
          [] function_id = 3 ->
               [res |-> Ok(RequestFrame(slave_id,
                    [variant |-> "ReadOutputRegisters", address |-> ac[1], count |-> ac[2]])),
                keeps |-> FALSE, rel |-> rel]
          [] function_id = 4 ->
               [res |-> Ok(RequestFrame(slave_id,
                    [variant |-> "ReadInputRegisters", address |-> ac[1], count |-> ac[2]])),
                keeps |-> FALSE, rel |-> rel]
          [] function_id = 5 ->
               [res |-> Ok(RequestFrame(slave_id,
                    [variant |-> "SetCoil", address |-> ac[1],
                     status |-> IF ac[2] = 65280 THEN "On" ELSE "Off"])),
                keeps |-> FALSE, rel |-> rel]
          [] function_id = 6 ->
               [res |-> Ok(RequestFrame(slave_id,
                    [variant |-> "SetRegister", address |-> ac[1], value |-> ac[2]])),
                keeps |-> FALSE, rel |-> rel]
          [] function_id = 15 ->
               [res |-> Ok(RequestFrame(slave_id,
                    [variant |-> "SetCoils", address |-> ac[1], count |-> ac[2],
                     coils |-> [grant |-> store, count |-> ac[2]]])),
                keeps |-> TRUE, rel |-> 0]
          [] function_id = 16 ->
               [res |-> Ok(RequestFrame(slave_id,
                    [variant |-> "SetRegisters", address |-> ac[1], count |-> ac[2],
                     registers |-> [grant |-> store]])),
                keeps |-> TRUE, rel |-> 0]
          [] OTHER ->
               [res |-> Err(UnknownFunction(function_id)), keeps |-> FALSE, rel |-> rel]

\* as the draft src/src/lib.rs does it: the grant of a frame that fails the
\* CRC check is dropped without a release
parse_frame_crc_keeps_bytes(rgr, frame_len) ==
    IF ~crc_valid(Slice(rgr, 0, frame_len))
    THEN [res |-> Err(Crc), keeps |-> FALSE, rel |-> 0]
    ELSE parse_frame_request(rgr, frame_len)

parse_frame(rgr, frame_len) ==
    IF ~crc_valid(Slice(rgr, 0, frame_len))
    THEN [res |-> Err(Crc), keeps |-> FALSE, rel |-> to_release(Len(rgr), frame_len)]
    ELSE parse_frame_request(rgr, frame_len)

----------------------------------------------------------------------------
(* The serial line: frames as they appear on the wire.  The byte values are *)
(* those of the tests of modbus.rs (fn1_crc_correct, fn1_crc_fail, fn15),   *)
(* the fn16 frame of its commented test, and a frame of function 7.         *)

TestFrames ==
    << <<17, 1, 0, 19, 0, 37, 14, 132>>,
       <<17, 1, 0, 19, 0, 37, 14, 133>>,
       <<17, 15, 0, 19, 0, 10, 2, 205, 1, 191, 11>>,
       <<17, 16, 0, 1, 0, 2, 4, 0, 10, 1, 2, 198, 240>>,
       <<17, 7, 0, 19, 0, 37, 134, 132>> >>

\* The 8-byte frames of the functions 1..6 (the tests fn1 .. fn6 feed one
\* each): every combination of the slave ids, addresses and values below,
\* with the CRC-16/MODBUS of the six bytes appended low byte first.
SlaveIds == <<17, 255>>
Addresses == << <<0, 19>>, <<255, 0>>, <<1, 255>> >>
Values == << <<0, 0>>, <<0, 37>>, <<255, 0>>, <<0, 255>>, <<255, 255>> >>

WithCrc(body) ==
    LET c == crc16_modbus(body) IN body \o <<c % 256, c \div 256>>

ScalarFrame(i) ==
    LET k  == i - 1
        v  == Values[(k % Len(Values)) + 1]
        k1 == k \div Len(Values)
        a  == Addresses[(k1 % Len(Addresses)) + 1]
        k2 == k1 \div Len(Addresses)
        f  == (k2 % SET_REGISTER) + 1
        id == SlaveIds[(k2 \div SET_REGISTER) + 1]
    IN  WithCrc(<<id, f, a[1], a[2], v[1], v[2]>>)

ScalarFrames ==
    [i \in 1..(Len(SlaveIds) * SET_REGISTER * Len(Addresses) * Len(Values)) |->
        ScalarFrame(i)] \o <<>>

\* function-15 frames with two bytes of coil data (byte count 2) and every
\* quantity of outputs 0..MaxCoilCount, consistent with the byte count or not
CoilFrame(count) ==
    WithCrc(<<17, SET_COILS, 0, 19, count \div 256, count % 256, 2, 205, 1>>)

CoilFrames == [i \in 1..(MaxCoilCount + 1) |-> CoilFrame(i - 1)]

Catalogue == TestFrames \o ScalarFrames \o CoilFrames

RECURSIVE Flatten(_, _)
Flatten(w, i) == IF i > Len(w) THEN <<>> ELSE Catalogue[w[i]] \o Flatten(w, i + 1)

\* the shortest frame of the catalogue has 8 bytes
Streams ==
    { w \in UNION { [1..n -> 1..Len(TestFrames)] : n \in 1..(MaxWire \div 8) } :
        Len(Flatten(w, 1)) <= MaxWire }

WireBytes == Flatten(wire, 1)

----------------------------------------------------------------------------
(* The BBBuffer operations modbus.rs calls *)

NoGrant == [start |-> 0, len |-> 0, to_release |-> 0]

\* Producer::grant_exact(sz): where the grant starts, or no space
grant_exact(sz) ==
    LET max == RingSize
        already_inverted == write < read
    IN  IF already_inverted
        THEN IF write + sz < read
             THEN [ok |-> TRUE, start |-> write]
             ELSE [ok |-> FALSE, start |-> 0]
        ELSE IF write + sz <= max
             THEN [ok |-> TRUE, start |-> write]
             ELSE IF sz < read
                  THEN [ok |-> TRUE, start |-> 0]
                  ELSE [ok |-> FALSE, start |-> 0]

\* a commit that takes the length of the chunk for the new write cursor
commit_from_zero(start, used) ==
    [write |-> used, last |-> last]

\* a commit that does not lower the watermark when the write cursor wraps
commit_no_watermark(start, used) ==
    [write |-> start + used,
     last  |-> IF start + used > last THEN RingSize ELSE last]

\* GrantW::commit(used) of a grant of `used` bytes at `start`: the new cursors
commit(start, used) ==
    LET max == RingSize
        new_write == start + used
    IN  [write |-> new_write,
         last  |-> IF new_write < write /\ write # max THEN write
                   ELSE IF new_write > last THEN max
                   ELSE last]

\* Consumer::read() against write cursor w and watermark l: the (possibly
\* reset) read cursor and the length of the contiguous readable region
consumer_read(w, l) ==
    IF read_in_progress
    THEN [ok |-> FALSE, err |-> "GrantInProgress", read |-> read, len |-> 0]
    ELSE LET r  == IF read = l /\ w < read THEN 0 ELSE read
             sz == (IF w < r THEN l ELSE w) - r
         IN  IF sz = 0
             THEN [ok |-> FALSE, err |-> "InsufficientSize", read |-> r, len |-> 0]
             ELSE [ok |-> TRUE, err |-> "", read |-> r, len |-> sz]

\* the bytes a read grant of len bytes at start derefs to
GrantBytes(b, start, len) == [i \in 1..len |-> b[start + i - 1]]

----------------------------------------------------------------------------
(* modbus.rs: Modbus::new *)

Init ==
    /\ buf = [i \in 0..(RingSize - 1) |-> 0]
    /\ write = 0
    /\ read = 0
    /\ last = 0
    /\ read_in_progress = FALSE
    /\ waker = None
    /\ needed_bytes = None
    /\ panicked = FALSE
    /\ pc = "idle"
    /\ held = NoGrant
    /\ results = <<>>
    /\ wire \in Streams
    /\ sent = 0
    /\ tag = [i \in 0..(RingSize - 1) |-> 0]
    /\ feed = "none"
    /\ cx = "task"
    /\ ev = [op |-> "new"]

----------------------------------------------------------------------------
(* modbus.rs: Modbus::on_data_received *)

\* a producer that wakes the poller after every chunk
should_wake_always(rgr_len) == TRUE

\* the wake decision after the commit, given the length of the read grant
should_wake(rgr_len) ==
    IF IsSome(needed_bytes) THEN rgr_len >= Unwrap(needed_bytes) ELSE TRUE

\* the waker is invoked and left in the slot
waker_take_clone(slot) == slot

\* self.waker.take(): what is left in the slot
waker_take(slot) == None

on_data_received(k) ==
    LET data == SubSeq(WireBytes, sent + 1, sent + k)
        wgr  == grant_exact(k)
    IN  /\ sent' = sent + k
        /\ feed' = (IF feed = "none" THEN "single" ELSE IF feed = "single" THEN "split" ELSE feed)
        /\ UNCHANGED <<wire, pc, held, results, needed_bytes, cx>>
        /\ IF ~wgr.ok
           THEN \* grant_exact(..).unwrap_or_else(|_| panic!())
                /\ panicked' = TRUE
                /\ ev' = [op |-> "ingest", out |-> "Panic", why |-> "InsufficientSize",
                          len |-> 0, had |-> waker, woken |-> None]
                /\ UNCHANGED <<buf, tag, write, last, read, read_in_progress, waker>>
           ELSE LET c   == commit(wgr.start, k)
                    rgr == consumer_read(c.write, c.last)
                IN  /\ buf' = [i \in 0..(RingSize - 1) |->
                                 IF i >= wgr.start /\ i < wgr.start + k
                                 THEN data[i - wgr.start + 1] ELSE buf[i]]
                    /\ tag' = [i \in 0..(RingSize - 1) |->
                                 IF i >= wgr.start /\ i < wgr.start + k
                                 THEN sent + (i - wgr.start + 1) ELSE tag[i]]
                    /\ write' = c.write
                    /\ last' = c.last
                    /\ IF ~rgr.ok
                       THEN \* consumer.read().unwrap_or_else(|_| panic!())
                            /\ panicked' = TRUE
                            /\ read' = rgr.read
                            /\ ev' = [op |-> "ingest", out |-> "Panic", why |-> rgr.err,
                                      len |-> 0, had |-> waker, woken |-> None]
                            /\ UNCHANGED <<read_in_progress, waker>>
                       ELSE /\ panicked' = FALSE
                            \* rgr is dropped at the end: release(0)
                            /\ read' = rgr.read
                            /\ read_in_progress' = FALSE
                            \* if let Some(waker) = self.waker.take() { waker.wake() }
                            /\ waker' = IF should_wake(rgr.len) THEN waker_take(waker) ELSE waker
                            /\ ev' = [op |-> "ingest", out |-> "Ok", why |-> "",
                                      len |-> rgr.len, had |-> waker,
                                      woken |-> IF should_wake(rgr.len) THEN waker
                                                ELSE None]

OnDataReceived ==
    /\ ~panicked
    /\ \E k \in 1..(Len(WireBytes) - sent) : on_data_received(k)

----------------------------------------------------------------------------
(* modbus.rs: Modbus::next, RequestFuture::poll *)

\* the wakers a context can carry: that of the consumer task and that of
\* another task
Wakers == {"task", "other"}

\* needed_bytes left behind by a poll that returns a frame of frame_len
\* bytes, as the draft src/src/lib.rs leaves it on the inline path
needed_after_frame_stale(frame_len) == Some(frame_len)

\* self.bus.needed_bytes = None, before parse_frame is called
needed_after_frame(frame_len) == None

\* One call of RequestFuture::poll: the fields of Modbus and of the ring it
\* leaves behind, and what it returned (out, res).
\* w: the waker of the context the future is polled with
poll(w) ==
    LET base == [needed_bytes |-> needed_bytes, waker |-> waker, read |-> read,
                 read_in_progress |-> read_in_progress, pc |-> pc, held |-> held,
                 panicked |-> FALSE, out |-> "Pending", res |-> <<>>,
                 start |-> read, len |-> 0, frame_len |-> 0, why |-> ""]
        \* self.bus.needed_bytes = None; Poll::Ready(parse_frame(rgr, frame_len))
        ready(b, g, flen) ==
            LET pf  == parse_frame(GrantBytes(buf, g.read, g.len), flen)
                \* rgr.to_release(frame_len) of the grant a store keeps
                rel == to_release(g.len, flen)
            IN  [b EXCEPT !.needed_bytes = needed_after_frame(flen),
                          !.out = "Ready",
                          !.res = <<pf.res>>,
                          !.start = g.read,
                          !.len = g.len,
                          !.frame_len = flen,
                          !.read = IF pf.keeps THEN g.read ELSE g.read + pf.rel,
                          !.read_in_progress = pf.keeps,
                          !.held = IF pf.keeps
                                   THEN [start |-> g.read, len |-> g.len,
                                         to_release |-> rel]
                                   ELSE NoGrant,
                          !.pc = IF pf.keeps THEN "holding" ELSE "idle"]
        \* consumer.read().unwrap_or_else(|_| panic!())
        read_panic(b, g) ==
            [b EXCEPT !.panicked = TRUE, !.out = "Panic", !.why = g.err,
                      !.read = g.read, !.start = g.read]
        rgr == consumer_read(write, last)
    IN  IF IsSome(needed_bytes)
        THEN LET frame_len == Unwrap(needed_bytes)
             IN  IF ~rgr.ok THEN read_panic(base, rgr)
                 ELSE IF rgr.len >= frame_len THEN ready(base, rgr, frame_len)
                 ELSE \* Poll::Pending; the auto-release grant is dropped
                      [base EXCEPT !.pc = "suspended",
                                   !.start = rgr.read,
                                   !.len = rgr.len,
                                   !.frame_len = frame_len,
                                   !.read = rgr.read + to_release(rgr.len, frame_len)]
        ELSE LET b1 == [base EXCEPT !.waker = Some(w)]
             IN  IF ~rgr.ok THEN read_panic(b1, rgr)
                 ELSE LET rlen == parse_request_len(GrantBytes(buf, rgr.read, rgr.len))
                      IN  IF IsErr(rlen)
                          THEN \* unimplemented!(..)
                               [b1 EXCEPT !.panicked = TRUE, !.out = "Panic",
                                          !.why = "unimplemented",
                                          !.read = rgr.read, !.start = rgr.read,
                                          !.len = rgr.len]
                          ELSE IF IsSome(rlen[2]) /\ rgr.len >= Unwrap(rlen[2])
                          THEN ready(b1, rgr, Unwrap(rlen[2]))
                          ELSE \* Poll::Pending; the plain grant is dropped: release(0)
                               [b1 EXCEPT !.needed_bytes = rlen[2],
                                          !.pc = "suspended",
                                          !.start = rgr.read,
                                          !.len = rgr.len,
                                          !.read = rgr.read]

\* The consumer task polls the future of next(): the first poll of a pull
\* (pc = "idle"), or a poll while a pull is suspended (pc = "suspended").
\* The latter is the suspended future polled again, woken or not, or that
\* future dropped and next() called again: RequestFuture holds nothing but
\* the reference to Modbus, so both run this code on the same state.  It
\* may come with the waker of another task.  The two wakers are
\* interchangeable and the None branch stores the one it is given, so only
\* a poll that meets needed_bytes = Some(n) is given the choice.
Poll ==
    /\ ~panicked
    /\ pc \in {"idle", "suspended"}
    /\ \E w \in Wakers :
        /\ (w # "task") => (pc = "suspended" /\ IsSome(needed_bytes))
        /\ LET p == poll(w)
           IN  /\ cx' = (IF p.pc = "suspended" THEN w ELSE "task")
               /\ needed_bytes' = p.needed_bytes
               /\ waker' = p.waker
               /\ read' = p.read
               /\ read_in_progress' = p.read_in_progress
               /\ pc' = p.pc
               /\ held' = p.held
               /\ panicked' = p.panicked
               /\ results' = IF p.out = "Ready"
                             THEN Append(results,
                                    [res |-> p.res[1],
                                     first |-> tag[p.start],
                                     final |-> tag[p.start + p.frame_len - 1],
                                     len |-> p.frame_len])
                             ELSE results
               /\ ev' = [op |-> "poll", out |-> p.out, why |-> p.why,
                         needed |-> needed_bytes, start |-> p.start, len |-> p.len,
                         frame_len |-> p.frame_len, resumed |-> (pc = "suspended")]
    /\ feed' = (IF sent < Len(WireBytes) THEN "early" ELSE feed)
    /\ UNCHANGED <<buf, write, last, wire, sent, tag>>

\* The consumer drops a RequestFrame that owns a CoilStore/RegisterStore:
\* AutoReleaseGrantR::drop releases its to_release bytes.
DropFrame ==
    /\ ~panicked
    /\ pc = "holding"
    /\ pc' = "idle"
    /\ read' = IF read_in_progress THEN read + held.to_release ELSE read
    /\ read_in_progress' = FALSE
    /\ held' = NoGrant
    /\ ev' = [op |-> "drop", start |-> held.start, rel |-> held.to_release]
    /\ UNCHANGED <<buf, write, last, waker, needed_bytes, panicked, results,
                   wire, sent, tag, feed, cx>>

----------------------------------------------------------------------------
(* data.rs: CoilStore, CoilIterator, RegisterStore *)

\* self.data[byte] >> bit & 1 == 1
CoilBit(byte, bit) == IF (byte \div (2 ^ bit)) % 2 = 1 THEN "On" ELSE "Off"

\* CoilStore::iter().collect(): the slice &self.data[0..(count + 7) / 8] of
\* the grant, then CoilIterator::next until it returns None
CoilStore_iter(coils) ==
    LET n == (coils.count + (8 - 1)) \div 8
    IN  IF n > Len(coils.grant.data)
        THEN <<"Panic">>
        ELSE LET data == Slice(coils.grant.data, 0, n)
             IN  [current \in 1..coils.count |->
                     CoilBit(data[((current - 1) \div 8) + 1], (current - 1) % 8)]

\* RegisterStore::iter().collect(): self.data.chunks(2), each chunk through
\* u16::from_be_bytes(s.try_into().unwrap_or_default())
RegisterStore_iter(registers) ==
    LET data == registers.grant.data
        n == Len(data)
    IN  [c \in 1..((n + 1) \div 2) |->
            IF 2 * c <= n THEN from_be_bytes(data[2 * c - 1], data[2 * c])
            ELSE from_be_bytes(0, 0)]

\* The consumer iterates the store of the frame it holds.
IterateView ==
    /\ ~panicked
    /\ pc = "holding"
    /\ LET request == results[Len(results)].res[2].request
           out == IF request.variant = "SetCoils"
                  THEN CoilStore_iter(request.coils)
                  ELSE RegisterStore_iter(request.registers)
       IN  /\ ev' = [op |-> "iter", variant |-> request.variant, out |-> out]
           /\ panicked' = (out = <<"Panic">>)
    /\ UNCHANGED <<buf, write, read, last, read_in_progress, waker, needed_bytes,
                   pc, held, results, wire, sent, tag, feed, cx>>

Next == OnDataReceived \/ Poll \/ DropFrame \/ IterateView

Spec == Init /\ [][Next]_vars

----------------------------------------------------------------------------
(* The decoder fed with one frame of ScalarFrames, in any chunks, and      *)
(* pulled at any time                                                      *)

DecodeInit ==
    /\ buf = [i \in 0..(RingSize - 1) |-> 0]
    /\ write = 0
    /\ read = 0
    /\ last = 0
    /\ read_in_progress = FALSE
    /\ waker = None
    /\ needed_bytes = None
    /\ panicked = FALSE
    /\ pc = "idle"
    /\ held = NoGrant
    /\ results = <<>>
    /\ wire \in { <<i>> : i \in (Len(TestFrames) + 1)..(Len(TestFrames) + Len(ScalarFrames)) }
    /\ sent = 0
    /\ tag = [i \in 0..(RingSize - 1) |-> 0]
    /\ feed = "none"
    /\ cx = "task"
    /\ ev = [op |-> "new"]

DecodeNext == OnDataReceived \/ Poll

DecodeSpec == DecodeInit /\ [][DecodeNext]_vars

----------------------------------------------------------------------------
(* The decoder fed with one frame of CoilFrames; the consumer pulls it and *)
(* iterates the coils of the view                                          *)

CoilInit ==
    /\ buf = [i \in 0..(RingSize - 1) |-> 0]
    /\ write = 0
    /\ read = 0
    /\ last = 0
    /\ read_in_progress = FALSE
    /\ waker = None
    /\ needed_bytes = None
    /\ panicked = FALSE
    /\ pc = "idle"
    /\ held = NoGrant
    /\ results = <<>>
    /\ wire \in { <<i>> : i \in (Len(TestFrames) + Len(ScalarFrames) + 1)..Len(Catalogue) }
    /\ sent = 0
    /\ tag = [i \in 0..(RingSize - 1) |-> 0]
    /\ feed = "none"
    /\ cx = "task"
    /\ ev = [op |-> "new"]

CoilNext == OnDataReceived \/ Poll \/ IterateView

CoilSpec == CoilInit /\ [][CoilNext]_vars

----------------------------------------------------------------------------
(* lib.rs: the single-file draft of the decoder.  Its crc_valid,           *)
(* parse_read_request, parse_request_len and on_data_received are the same *)
(* code as in general.rs, request.rs and modbus.rs; its parse_frame and    *)
(* poll work on a plain GrantR, whose drop releases nothing.               *)

\* Modbus::parse_frame of lib.rs.  rgr: the bytes of the read grant.  The
\* result, whether the grant moves into the returned request (keeps), and
\* otherwise the number of bytes released (rel).
lib_parse_frame(rgr, frame_len) ==
    IF ~crc_valid(Slice(rgr, 0, frame_len))
    THEN \* return Err(Error::Crc): the grant is dropped, release(0)
         [res |-> Err(Crc), keeps |-> FALSE, rel |-> 0]
    ELSE LET function_id == rgr[2]
             data == Slice(rgr, 2, frame_len)
             ac == parse_read_request(data)
             \* rgr.release(frame_len)
             scalar(variant) ==
                 [res |-> Ok([variant |-> variant, address |-> ac[1], count |-> ac[2]]),
                  keeps |-> FALSE, rel |-> frame_len]
         IN  CASE function_id = 1 -> scalar("ReadCoil")
               [] function_id = 2 -> scalar("ReadInput")
               [] function_id = 3 -> scalar("ReadOutputRegisters")
               [] function_id = 4 -> scalar("ReadInputRegisters")
               [] function_id = 5 ->
                    [res |-> Ok([variant |-> "SetCoil", address |-> ac[1],
                                 status |-> IF ac[2] = 65280 THEN "On" ELSE "Off"]),
                     keeps |-> FALSE, rel |-> frame_len]
               [] function_id = 6 ->
                    [res |-> Ok([variant |-> "SetRegister", address |-> ac[1],
                                 value |-> ac[2]]),
                     keeps |-> FALSE, rel |-> frame_len]
               [] function_id = 15 ->
                    \* CoilStore { data: rgr, count }
                    [res |-> Ok([variant |-> "SetCoils", address |-> ac[1],
                                 count |-> ac[2],
                                 coils |-> [data |-> rgr, count |-> ac[2]]]),
                     keeps |-> TRUE, rel |-> 0]
               [] function_id = 16 -> scalar("ReadCoil")
               [] OTHER ->
                    [res |-> Err(UnknownFunction(function_id)), keeps |-> FALSE,
                     rel |-> 0]

\* RequestFuture::poll of lib.rs, polled with waker w
lib_poll(w) ==
    LET base == [needed_bytes |-> needed_bytes, waker |-> waker, read |-> read,
                 read_in_progress |-> read_in_progress, pc |-> pc, held |-> held,
                 panicked |-> FALSE, out |-> "Pending", res |-> <<>>,
                 start |-> read, len |-> 0, frame_len |-> 0, why |-> ""]
        \* Poll::Ready(self.bus.parse_frame(rgr, frame_len))
        ready(b, g, flen) ==
            LET pf == lib_parse_frame(GrantBytes(buf, g.read, g.len), flen)
            IN  [b EXCEPT !.out = "Ready",
                          !.res = <<pf.res>>,
                          !.start = g.read,
                          !.len = g.len,
                          !.frame_len = flen,
                          !.read = g.read + pf.rel,
                          !.read_in_progress = pf.keeps,
                          !.held = IF pf.keeps
                                   THEN [start |-> g.read, len |-> g.len,
                                         to_release |-> 0]
                                   ELSE NoGrant,
                          !.pc = IF pf.keeps THEN "holding" ELSE "idle"]
        \* consumer.read().unwrap_or_else(|_| panic!())
        read_panic(b, g) ==
            [b EXCEPT !.panicked = TRUE, !.out = "Panic", !.why = g.err,
                      !.read = g.read, !.start = g.read]
        rgr == consumer_read(write, last)
    IN  IF IsSome(needed_bytes)
        THEN LET frame_len == Unwrap(needed_bytes)
             IN  IF ~rgr.ok THEN read_panic(base, rgr)
                 ELSE IF rgr.len >= frame_len
                 THEN \* self.bus.needed_bytes = None
                      ready([base EXCEPT !.needed_bytes = None], rgr, frame_len)
                 ELSE \* Poll::Pending; the grant is dropped: release(0)
                      [base EXCEPT !.pc = "suspended",
                                   !.start = rgr.read,
                                   !.len = rgr.len,
                                   !.frame_len = frame_len,
                                   !.read = rgr.read]
        ELSE LET b1 == [base EXCEPT !.waker = Some(w)]
             IN  IF ~rgr.ok THEN read_panic(b1, rgr)
                 ELSE LET rlen == parse_request_len(GrantBytes(buf, rgr.read, rgr.len))
                      IN  IF IsErr(rlen)
                          THEN \* unimplemented!(..)
                               [b1 EXCEPT !.panicked = TRUE, !.out = "Panic",
                                          !.why = "unimplemented",
                                          !.read = rgr.read, !.start = rgr.read,
                                          !.len = rgr.len]
                          ELSE IF IsSome(rlen[2]) /\ rgr.len >= Unwrap(rlen[2])
                          THEN \* self.bus.needed_bytes = len, and the reset
                               \* before the return is commented out
                               ready([b1 EXCEPT !.needed_bytes = rlen[2]], rgr,
                                     Unwrap(rlen[2]))
                          ELSE \* Poll::Pending; the grant is dropped: release(0)
                               [b1 EXCEPT !.needed_bytes = rlen[2],
                                          !.pc = "suspended",
                                          !.start = rgr.read,
                                          !.len = rgr.len,
                                          !.read = rgr.read]

\* The consumer task polls the future of next() of lib.rs.  (A frame that
\* lib.rs does not release is returned by every later pull: the number of
\* results is capped at MaxPulls.)
LibPoll ==
    /\ ~panicked
    /\ Len(results) < MaxPulls
    /\ pc \in {"idle", "suspended"}
    /\ \E w \in Wakers :
        /\ (w # "task") => (pc = "suspended" /\ IsSome(needed_bytes))
        /\ LET p == lib_poll(w)
           IN  /\ cx' = (IF p.pc = "suspended" THEN w ELSE "task")
               /\ needed_bytes' = p.needed_bytes
               /\ waker' = p.waker
               /\ read' = p.read
               /\ read_in_progress' = p.read_in_progress
               /\ pc' = p.pc
               /\ held' = p.held
               /\ panicked' = p.panicked
               /\ results' = IF p.out = "Ready"
                             THEN Append(results,
                                    [res |-> p.res[1],
                                     first |-> tag[p.start],
                                     final |-> tag[p.start + p.frame_len - 1],
                                     len |-> p.frame_len])
                             ELSE results
               /\ ev' = [op |-> "poll", out |-> p.out, why |-> p.why,
                         needed |-> needed_bytes, start |-> p.start, len |-> p.len,
                         frame_len |-> p.frame_len, resumed |-> (pc = "suspended")]
    /\ feed' = (IF sent < Len(WireBytes) THEN "early" ELSE feed)
    /\ UNCHANGED <<buf, write, last, wire, sent, tag>>

\* The consumer drops a Request::SetCoils: the GrantR of its CoilStore is
\* dropped, which releases nothing.
LibDropView ==
    /\ ~panicked
    /\ pc = "holding"
    /\ pc' = "idle"
    /\ read_in_progress' = FALSE
    /\ held' = NoGrant
    /\ ev' = [op |-> "drop", start |-> held.start, rel |-> 0]
    /\ UNCHANGED <<buf, write, read, last, waker, needed_bytes, panicked, results,
                   wire, sent, tag, feed, cx>>

LibNext == OnDataReceived \/ LibPoll \/ LibDropView

LibSpec == Init /\ [][LibNext]_vars

----------------------------------------------------------------------------
(* general.rs: crc_valid called on its own, on the bodies of the frames of *)
(* the tests and on every body of up to MaxCrcBody bytes of Fill, each     *)
(* followed by right and wrong trailers                                    *)

CrcBodies ==
    { SubSeq(TestFrames[i], 1, Len(TestFrames[i]) - 2) : i \in 1..Len(TestFrames) }
        \cup UNION { [1..n -> {0, 17, 255}] : n \in 0..MaxCrcBody }

\* the trailers tried behind a body: every low byte with the right high
\* byte, with the right low byte as high byte, with 0 and with 255, and the
\* right low byte with every high byte
CrcTrailers(body) ==
    LET c == crc16_modbus(body)
    IN  { <<lo, hi>> : lo \in 0..255, hi \in {c \div 256, c % 256, 0, 255} }
            \cup { <<c % 256, hi>> : hi \in 0..255 }

CrcCall(data) == [op |-> "crc", data |-> data, out |-> crc_valid(data)]

CrcInit ==
    /\ buf = [i \in 0..(RingSize - 1) |-> 0]
    /\ write = 0
    /\ read = 0
    /\ last = 0
    /\ read_in_progress = FALSE
    /\ waker = None
    /\ needed_bytes = None
    /\ panicked = FALSE
    /\ pc = "idle"
    /\ held = NoGrant
    /\ results = <<>>
    /\ wire = <<1>>
    /\ sent = 0
    /\ tag = [i \in 0..(RingSize - 1) |-> 0]
    /\ feed = "none"
    /\ cx = "task"
    /\ ev = [op |-> "new"]

\* one call on one slice
CrcNext ==
    /\ ev.op = "new"
    /\ \E body \in CrcBodies : \E t \in CrcTrailers(body) :
          ev' = CrcCall(body \o t)
    /\ UNCHANGED <<buf, write, read, last, read_in_progress, waker, needed_bytes,
                   panicked, pc, held, results, wire, sent, tag, feed, cx>>

CrcSpec == CrcInit /\ [][CrcNext]_vars

----------------------------------------------------------------------------
(* request.rs: parse_request_len called on its own, on slices of every     *)
(* length up to MaxSlice with every function code                          *)

\* values of the bytes around the function code and the byte count
Fill == {0, 17, 255}

\* values of the byte at offset 6
ByteCounts == {0, 1, 2, 4, 246, 255}

SliceOf(n, f, c, x) ==
    [i \in 1..n |-> IF i = 2 THEN f ELSE IF i = 7 THEN c ELSE x]

LenCall(data) == [op |-> "len", data |-> data, out |-> parse_request_len(data)]

LenInit ==
    /\ buf = [i \in 0..(RingSize - 1) |-> 0]
    /\ write = 0
    /\ read = 0
    /\ last = 0
    /\ read_in_progress = FALSE
    /\ waker = None
    /\ needed_bytes = None
    /\ panicked = FALSE
    /\ pc = "idle"
    /\ held = NoGrant
    /\ results = <<>>
    /\ wire = <<1>>
    /\ sent = 0
    /\ tag = [i \in 0..(RingSize - 1) |-> 0]
    /\ feed = "none"
    /\ cx = "task"
    /\ ev = [op |-> "new"]

\* one call on one slice
LenNext ==
    /\ ev.op = "new"
    /\ \E n \in 0..MaxSlice, f \in 0..255, c \in ByteCounts, x \in Fill :
          ev' = LenCall(SliceOf(n, f, c, x))
    /\ UNCHANGED <<buf, write, read, last, read_in_progress, waker, needed_bytes,
                   panicked, pc, held, results, wire, sent, tag, feed, cx>>

LenSpec == LenInit /\ [][LenNext]_vars

----------------------------------------------------------------------------
(* Reference notions the properties are stated with *)

FrameLen(j) == Len(Catalogue[wire[j]])

\* wire offset (from 1) of the first and of the last byte of the j-th frame
RECURSIVE FrameStart(_)
FrameStart(j) == IF j = 1 THEN 1 ELSE FrameStart(j - 1) + FrameLen(j - 1)

FrameEnd(j) == FrameStart(j) + FrameLen(j) - 1

\* the CRC-16/MODBUS of all bytes but the last two is the little-endian
\* 16-bit value of the last two
TrailerMatches(frame) ==
    LET n == Len(frame)
    IN  n >= 2 /\ crc16_modbus(SubSeq(frame, 1, n - 2)) = frame[n - 1] + 256 * frame[n]

KnownFunction(f) == f \in (1..6) \cup {15, 16}

\* the wire is a concatenation of CRC-valid request frames of known functions
ValidStream ==
    \A j \in 1..Len(wire) :
        KnownFunction(Catalogue[wire[j]][2]) /\ TrailerMatches(Catalogue[wire[j]])

\* what decoding the j-th frame gives when the whole wire sits in the ring
Expected(j) ==
    parse_frame(SubSeq(WireBytes, FrameStart(j), Len(WireBytes)), FrameLen(j)).res

\* the ring never has to wrap: the whole wire fits behind the write cursor
NoWrap == Len(WireBytes) <= RingSize

LastResult == results[Len(results)]

\* the frame the pull of the last poll is positioned on
Pulled == IF ev.out = "Ready" THEN Len(results) ELSE Len(results) + 1

----------------------------------------------------------------------------
(* Properties *)

\* C1 (chunking invariance): when a valid stream is fed to a fresh decoder
\* in any partition into chunks and next() is called only after the last
\* chunk, the results are, one after the other, the decoded frames of the
\* stream, the same for every partition, and every call returns one until
\* all frames are out.
ChunkingInvariance ==
    (feed \in {"single", "split"} /\ ValidStream) =>
        /\ Len(results) <= Len(wire)
        /\ \A j \in 1..Len(results) : results[j].res = Expected(j)
        /\ (ev.op = "poll" /\ ev.out # "Ready") => Len(results) = Len(wire)

\* a two-frame stream with a multi-write frame, fed in several chunks and
\* decoded completely
ChunkingInvarianceWitness ==
    /\ feed = "split"
    /\ ValidStream
    /\ Len(wire) = 2
    /\ Len(results) = 2
    /\ \E j \in 1..2 : wire[j] = 3

\* C2 (cancellation safety): a pull that is taken up again after it was
\* suspended - the case of a future dropped and next() called anew - finds
\* the ring as the suspended pull left it: once all bytes of the frame it
\* is positioned on are ingested, its poll returns exactly that frame.
CancellationSafety ==
    (/\ ev.op = "poll" /\ ev.resumed
     /\ ValidStream /\ NoWrap
     /\ Pulled <= Len(wire)
     /\ sent >= FrameEnd(Pulled)) =>
        /\ ev.out = "Ready"
        /\ LastResult.first = FrameStart(Pulled)
        /\ LastResult.len = FrameLen(Pulled)
        /\ IsOk(LastResult.res)

\* C3 (a poll that returns Pending releases nothing): after such a poll the
\* read cursor is where the read grant of the poll started and no grant is
\* outstanding, so the readable bytes are the same as before.
PendingReleasesNothing ==
    (ev.op = "poll" /\ ev.out = "Pending") =>
        (read = ev.start /\ ~read_in_progress)

\* C4 (CRC soundness): whenever next() delivers Ok, the CRC-16/MODBUS of
\* the frame's bytes without the last two equals the little-endian 16-bit
\* value of the last two; a frame that fails this is never delivered as Ok.
CrcSoundness ==
    (ev.op = "poll" /\ ev.out = "Ready" /\ IsOk(LastResult.res)) =>
        TrailerMatches(GrantBytes(buf, ev.start, ev.frame_len))

\* a frame with a wrong trailer was answered with Err(Crc) and the frame
\* behind it delivered as Ok
CrcSoundnessWitness ==
    /\ ev.op = "poll" /\ ev.out = "Ready"
    /\ Len(results) = 2
    /\ results[1].res = Err(Crc)
    /\ IsOk(results[2].res)

\* C5 (no loss), for streams of frames with known function codes: when k
\* complete frames are ingested without the ring running out of space, k
\* successive calls of next() return one result each, and the call after
\* them suspends.
NoLoss ==
    (/\ ev.op = "poll"
     /\ feed \in {"single", "split"}
     /\ \A j \in 1..Len(wire) : KnownFunction(Catalogue[wire[j]][2])) =>
        IF Pulled <= Len(wire) THEN ev.out = "Ready" ELSE ev.out = "Pending"

\* C6 (ordering): the bytes of each result are consecutive bytes of the
\* wire, and each result starts behind the end of the one before it: the
\* results come in the order in which the bytes were committed.
Ordering ==
    \A j \in 1..Len(results) :
        /\ results[j].final = results[j].first + results[j].len - 1
        /\ j > 1 => results[j].first > results[j - 1].final

\* two results, the second one read from the start of the ring after the
\* write cursor has wrapped around
OrderingWitness ==
    /\ Len(results) = 2
    /\ ev.op = "poll" /\ ev.out = "Ready"
    /\ ev.start = 0
    /\ results[2].first > 1

\* C7 (CRC failure): a frame whose trailer does not match gives Err(Crc);
\* its frame_len bytes are released by that call, needed_bytes is None
\* again, no grant stays outstanding, and in a feed-then-pull run the frame
\* behind it is decoded by the next call as if it stood alone.
CrcFailure ==
    /\ (ev.op = "poll" /\ ev.out = "Ready" /\ LastResult.res = Err(Crc)) =>
          /\ ~TrailerMatches(GrantBytes(buf, ev.start, ev.frame_len))
          /\ read = ev.start + ev.frame_len
          /\ needed_bytes = None
          /\ ~read_in_progress
          /\ pc = "idle"
    /\ (feed \in {"single", "split"}) =>
          \A j \in 1..Len(results) :
              ~TrailerMatches(Catalogue[wire[j]]) =>
                  /\ results[j].res = Err(Crc)
                  /\ results[j].first = FrameStart(j)
                  /\ j < Len(results) => results[j + 1].res = Expected(j + 1)

\* the frame with the wrong trailer was rejected and the valid frame behind
\* it decoded
CrcFailureWitness ==
    /\ feed \in {"single", "split"}
    /\ wire = <<2, 1>>
    /\ Len(results) = 2
    /\ results[1].res = Err(Crc)
    /\ results[2].res = Expected(2)
    /\ IsOk(results[2].res)

\* C8 (unknown function code): when the first pull of a frame sees a
\* function code outside 1..6, 15, 16, next() returns
\* Err(UnknownFunction(code)) as a value and the decoder stays in the state
\* needed_bytes = None.
UnknownFunctionReturned ==
    (/\ ev.op = "poll"
     /\ ev.needed = None
     /\ ev.len >= 2
     /\ ~KnownFunction(buf[ev.start + 1])) =>
        /\ ~panicked
        /\ ev.out = "Ready"
        /\ LastResult.res = Err(UnknownFunction(buf[ev.start + 1]))
        /\ needed_bytes = None

\* C9 (out of space): when on_data_received cannot get a write grant of
\* the chunk's length, the failure is recoverable: the call returns and
\* the program goes on.
OutOfSpaceRecoverable ==
    (ev.op = "ingest" /\ ev.why = "InsufficientSize") => ~panicked

\* C10 (parse_request_len): for every slice s it gives a value: Ok(None) for
\* fewer than 2 bytes; Ok(Some(8)) for s[1] in 1..6; for s[1] in {15, 16}
\* Ok(None) if |s| <= 6 and Ok(Some(9 + s[6])) otherwise;
\* Err(UnknownFunction(s[1])) for any other s[1]; and changing any byte other
\* than s[1] and s[6] does not change it.  (s[1], s[6] are data[2], data[7].)
RequestLenRule ==
    (ev.op = "len") =>
        LET s == ev.data
            n == Len(s)
        IN  /\ ev.out = (IF n < 2 THEN Ok(None)
                         ELSE IF s[2] \in 1..6 THEN Ok(Some(8))
                         ELSE IF s[2] \in {15, 16}
                              THEN (IF n <= 6 THEN Ok(None) ELSE Ok(Some(9 + s[7])))
                              ELSE Err(UnknownFunction(s[2])))
            /\ \A i \in (1..n) \ {2, 7} : \A b \in {0, 1, 15, 16, 255} :
                   parse_request_len([s EXCEPT ![i] = b]) = ev.out

\* a multi-write header that is long enough: the length comes from s[6]
RequestLenRuleWitness ==
    /\ ev.op = "len"
    /\ Len(ev.data) = 7
    /\ ev.data[2] = 16
    /\ ev.data[7] = 4
    /\ ev.out = Ok(Some(13))

\* the variant the function code selects
VariantOf(f) ==
    CASE f = 1 -> "ReadCoil"
      [] f = 2 -> "ReadInput"
      [] f = 3 -> "ReadOutputRegisters"
      [] f = 4 -> "ReadInputRegisters"
      [] f = 5 -> "SetCoil"
      [] f = 6 -> "SetRegister"

\* the one frame on the wire of DecodeSpec
TheFrame == Catalogue[wire[1]]

\* C11 (functions 1, 2, 3, 4, 6): for a CRC-valid 8-byte frame of one of
\* these functions next() returns Ok(RequestFrame) with slave_id = byte 0,
\* the variant of the function code, address = big-endian u16 of bytes 2, 3
\* and count (value for function 6) = big-endian u16 of bytes 4, 5; a pull
\* made after the frame is ingested returns it.
ScalarDecoded ==
    (ev.op = "poll" /\ TheFrame[2] \in {1, 2, 3, 4, 6}) =>
        /\ (feed \in {"single", "split"} /\ Pulled = 1) => ev.out = "Ready"
        /\ ev.out = "Ready" =>
              LET address == 256 * TheFrame[3] + TheFrame[4]
                  count   == 256 * TheFrame[5] + TheFrame[6]
              IN  LastResult.res =
                    Ok([slave_id |-> TheFrame[1],
                        request |->
                          IF TheFrame[2] = 6
                          THEN [variant |-> "SetRegister", address |-> address,
                                value |-> count]
                          ELSE [variant |-> VariantOf(TheFrame[2]), address |-> address,
                                count |-> count]])

\* a function-3 frame with the two bytes of address and of count different
\* was decoded
ScalarDecodedWitness ==
    /\ ev.op = "poll" /\ ev.out = "Ready"
    /\ TheFrame[1] = 255
    /\ TheFrame[2] = 3
    /\ IsOk(LastResult.res)
    /\ LastResult.res[2].request.address = 511
    /\ LastResult.res[2].request.count = 37

\* C12 (function 5): the decoded SetCoil status is On exactly when the
\* big-endian u16 of bytes 4, 5 is 0xFF00, and Off for every other value.
SetCoilStatus ==
    (ev.op = "poll" /\ TheFrame[2] = 5) =>
        /\ (feed \in {"single", "split"} /\ Pulled = 1) => ev.out = "Ready"
        /\ ev.out = "Ready" =>
              LastResult.res =
                Ok([slave_id |-> TheFrame[1],
                    request |->
                      [variant |-> "SetCoil",
                       address |-> 256 * TheFrame[3] + TheFrame[4],
                       status |-> IF TheFrame[5] = 255 /\ TheFrame[6] = 0
                                  THEN "On" ELSE "Off"]])

\* a function-5 frame with the status field 0x00FF was decoded as Off
SetCoilStatusWitness ==
    /\ ev.op = "poll" /\ ev.out = "Ready"
    /\ TheFrame[2] = 5
    /\ TheFrame[5] = 0 /\ TheFrame[6] = 255
    /\ IsOk(LastResult.res)
    /\ LastResult.res[2].request.status = "Off"

\* C13 (coils of function 15): iterating the CoilStore of a decoded
\* function-15 frame gives exactly count states, state i being On iff bit
\* (i mod 8) of coil data byte floor(i / 8) is 1, the coil data bytes being
\* the bytes 7.. of the frame.
CoilsDecoded ==
    (ev.op = "iter" /\ ev.variant = "SetCoils" /\ LastResult.first = FrameStart(Len(results))) =>
        LET frame == Catalogue[wire[Len(results)]]
            count == from_be_bytes(frame[5], frame[6])
        IN  ev.out = [i \in 1..count |->
                        CoilBit(frame[8 + ((i - 1) \div 8)], (i - 1) % 8)]

\* C14 (registers of function 16): iterating the RegisterStore of a decoded
\* function-16 frame gives exactly count values, the j-th being the
\* big-endian u16 of the frame bytes 7 + 2j, 8 + 2j.
RegistersDecoded ==
    (ev.op = "iter" /\ ev.variant = "SetRegisters" /\ LastResult.first = FrameStart(Len(results))) =>
        LET frame == Catalogue[wire[Len(results)]]
            count == from_be_bytes(frame[5], frame[6])
        IN  ev.out = [j \in 1..count |->
                        from_be_bytes(frame[8 + 2 * (j - 1)], frame[9 + 2 * (j - 1)])]

\* C15 (a view keeps its frame): while the CoilStore/RegisterStore of a
\* function-15/16 frame is alive, iterated or not, the read grant is
\* outstanding and the read cursor stays on the first byte of the frame;
\* dropping it releases exactly frame_len bytes, and the byte behind the
\* frame, if there is one, becomes the head of the ring.
ViewKeepsFrame ==
    /\ (pc = "holding") =>
          /\ read_in_progress
          /\ read = held.start
          /\ tag[read] = LastResult.first
    /\ (ev.op = "iter") => pc = "holding"
    /\ (ev.op = "drop") =>
          /\ ev.rel = LastResult.len
          /\ read = ev.start + LastResult.len
          /\ ~read_in_progress
          /\ (write > read) => tag[read] = LastResult.final + 1

\* the view of a multi-write frame was dropped with the frame behind it
\* already in the ring
ViewKeepsFrameWitness ==
    /\ ev.op = "drop"
    /\ ev.rel = 11
    /\ write > read
    /\ tag[read] = 12

\* C20 (back to the length-unknown state): whenever next() returns a
\* result, Ok or Err(Crc), needed_bytes is None afterwards, both when the
\* length was learned in the same poll and when needed_bytes was Some(n)
\* at the start of the poll.
NeededResetOnResult ==
    (ev.op = "poll" /\ ev.out = "Ready") => needed_bytes = None

\* a second result, Err(Crc), returned on the resumed path
NeededResetOnResultWitness ==
    /\ ev.op = "poll" /\ ev.out = "Ready"
    /\ IsSome(ev.needed)
    /\ Len(results) = 2
    /\ results[2].res = Err(Crc)
    /\ needed_bytes = None

\* C17 (no lost wake-up): when a pull is suspended and on_data_received
\* brings the readable bytes up to the frame length the pull waits for, the
\* waker that is invoked is the waker of that pull, i.e. the one its latest
\* poll was given - also when that poll found needed_bytes = Some(n).
NoLostWakeup ==
    (/\ ev.op = "ingest" /\ ev.out = "Ok"
     /\ pc = "suspended"
     /\ IsSome(needed_bytes)
     /\ ev.len >= Unwrap(needed_bytes)
     /\ IsSome(ev.had)) =>
        ev.woken = Some(cx)

\* C18 (wake decision): after the commit on_data_received takes and
\* invokes the stored waker iff needed_bytes is None or the readable length
\* is at least the n of needed_bytes = Some(n); otherwise the waker is
\* neither invoked nor removed.
WakeDecision ==
    (ev.op = "ingest" /\ ev.out = "Ok") =>
        IF needed_bytes = None \/ ev.len >= Unwrap(needed_bytes)
        THEN ev.woken = ev.had /\ waker = None
        ELSE ev.woken = None /\ waker = ev.had

\* a chunk that leaves the frame incomplete let the stored waker in place,
\* after an earlier chunk in the length-unknown state had invoked one
WakeDecisionWitness ==
    /\ ev.op = "ingest" /\ ev.out = "Ok"
    /\ needed_bytes = Some(8)
    /\ ev.len < 8
    /\ ev.had = Some("task")
    /\ ev.woken = None
    /\ waker = Some("task")

\* C16 (a pull returns at once exactly when a frame is complete): a poll
\* returns a result iff the contiguous readable bytes at the read position
\* hold at least the n bytes parse_request_len gives for them; with fewer
\* bytes readable it returns Pending.  (Stated for readable bytes that do
\* not show an unknown function code.)
ReadyIffComplete ==
    LET g == GrantBytes(buf, ev.start, ev.len)
        n == parse_request_len(g)
    IN  (ev.op = "poll" /\ (ev.len < 2 \/ KnownFunction(g[2]))) =>
            IF IsSome(n[2]) /\ ev.len >= Unwrap(n[2])
            THEN ev.out = "Ready"
            ELSE ev.out = "Pending"

\* C19 (a frame that is committed is returned): when all bytes of a frame
\* have been committed and its first byte is at the read position, the
\* poll of a pull returns it - in whatever way its chunks were placed in
\* the ring, also when the write side wrapped between two of them.
CommittedFrameReturned ==
    (/\ ev.op = "poll"
     /\ ev.len > 0
     /\ Pulled <= Len(wire)
     /\ KnownFunction(Catalogue[wire[Pulled]][2])
     /\ sent >= FrameEnd(Pulled)
     /\ tag[ev.start] = FrameStart(Pulled)) =>
        (ev.out = "Ready" /\ LastResult.len = FrameLen(Pulled))

\* what the length rule of the protocol gives for leading bytes s of a
\* known function: unknown (None) or known (Some(n))
LengthOracle(s) ==
    IF Len(s) < 2 THEN None
    ELSE IF s[2] \in 1..6 THEN Some(8)
    ELSE IF Len(s) <= 6 THEN None
    ELSE Some(9 + s[7])

\* C21 (leaving the length-unknown state): a poll made with needed_bytes =
\* None that returns Pending leaves needed_bytes = Some(n) when the length
\* rule gives n for the bytes it saw (and fewer than n were readable) and
\* None when the rule gives no length; and no step other than such a poll
\* takes needed_bytes from None to Some.
AwaitLengthStep ==
    [][ /\ (ev'.op = "poll" /\ ev'.needed = None /\ ev'.out = "Pending") =>
              /\ needed_bytes' = LengthOracle(GrantBytes(buf, ev'.start, ev'.len))
              /\ IsSome(needed_bytes') => ev'.len < Unwrap(needed_bytes')
        /\ (needed_bytes = None /\ needed_bytes' # None) =>
              (ev'.op = "poll" /\ ev'.out = "Pending")
      ]_vars

\* a poll that saw the header of a multi-write frame with its byte count
\* and stored 9 + byte count
AwaitLengthStepWitness ==
    /\ ev.op = "poll" /\ ev.needed = None /\ ev.out = "Pending"
    /\ buf[ev.start + 1] = 16
    /\ ev.len >= 7
    /\ needed_bytes = Some(13)

\* C22 (waker registration): after every poll that returned Pending, the
\* stored waker is the waker of the task that made that poll, whether the
\* poll found needed_bytes None or Some.
PendingStoresWaker ==
    (ev.op = "poll" /\ ev.out = "Pending") => waker = Some(cx)

\* C23 (needed_bytes belongs to the frame at the read position): whenever
\* needed_bytes = Some(n), the unreleased bytes start with the header of a
\* frame to which the length rule assigns n.
NeededMatchesHead ==
    IsSome(needed_bytes) =>
        LET rgr == consumer_read(write, last)
        IN  /\ rgr.ok
            /\ LengthOracle(GrantBytes(buf, rgr.read, rgr.len)) = needed_bytes

\* C24 (the fallback arm of parse_frame is unreachable): every byte range
\* handed to parse_frame carries a function code of 1..6, 15 or 16.
ParseFrameKnownFunction ==
    (ev.op = "poll" /\ ev.out = "Ready") => KnownFunction(buf[ev.start + 1])

\* C25 (parse_frame precondition): every call of parse_frame has
\* rgr.len() >= frame_len >= 8, and frame_len >= 9 when the function code
\* of the range is 15 or 16.
ParseFramePrecondition ==
    (ev.op = "poll" /\ ev.out = "Ready") =>
        /\ ev.len >= ev.frame_len
        /\ ev.frame_len >= 8
        /\ buf[ev.start + 1] \in {SET_COILS, SET_REGISTERS} => ev.frame_len >= 9

WakeOnce ==
    [][ (ev'.op = "ingest") =>
          /\ IsSome(ev'.woken) => (ev'.woken = waker /\ waker' = None)
          /\ waker = None => (ev'.woken = None /\ waker' = None)
      ]_vars

\* a second chunk arrived after the chunk that woke the task, before the
\* task polled again, and woke nobody
WakeOnceWitness ==
    /\ ev.op = "ingest" /\ ev.out = "Ok"
    /\ pc = "suspended"
    /\ ev.had = None /\ ev.woken = None
    /\ waker = None

\* the ring indices of the committed, unreleased bytes in reading order
LiveIndices ==
    LET r     == IF read = last /\ write < read THEN 0 ELSE read
        upper == [i \in 1..((IF write < r THEN last ELSE write) - r) |-> r + i - 1]
    IN  IF write < r THEN upper \o [i \in 1..write |-> i - 1] ELSE upper

\* the readable contents of the ring and the wire offsets they came from
Readable == [i \in 1..Len(LiveIndices) |-> buf[LiveIndices[i]]]
ReadableTags == [i \in 1..Len(LiveIndices) |-> tag[LiveIndices[i]]]

\* what a returning on_data_received leaves alone besides the cursor: the
\* decoder state, and the readable contents, which grow by the chunk
IngestKeeps ==
    /\ needed_bytes' = needed_bytes
    /\ UNCHANGED <<pc, held, results, read_in_progress>>
    /\ Readable' = Readable \o SubSeq(WireBytes, sent + 1, sent')
    /\ ReadableTags' = ReadableTags \o [i \in 1..(sent' - sent) |-> sent + i]

\* C28 as stated (on_data_received never consumes): after a call that
\* returns, the read cursor and needed_bytes are unchanged and the readable
\* contents are the previous contents followed by the chunk.
IngestLeavesCursor ==
    [][ (ev'.op = "ingest" /\ ev'.out = "Ok") => (read' = read /\ IngestKeeps) ]_vars

\* C28 (amended): after a call that returns, needed_bytes is unchanged, the
\* readable contents are the previous contents followed by the chunk, and
\* the read cursor is unchanged unless it stood at the watermark of a
\* wrapped ring, in which case it is moved to 0, the index of the next
\* unreleased byte; no byte is released.
IngestNeverConsumes ==
    [][ (ev'.op = "ingest" /\ ev'.out = "Ok") =>
          /\ IngestKeeps
          /\ \/ read' = read
             \/ read = last' /\ write' < read /\ read' = 0
      ]_vars

\* a chunk was committed behind unreleased bytes while the task was
\* suspended, and the call returned
IngestNeverConsumesWitness ==
    /\ ev.op = "ingest" /\ ev.out = "Ok"
    /\ pc = "suspended"
    /\ read > 0
    /\ Len(Readable) > ev.len

\* C29 (single read grant): no step asks the ring for a read grant while
\* one is outstanding, whether on_data_received runs between polls or while
\* a view returned by next() is alive.
SingleReadGrant ==
    (ev.op \in {"ingest", "poll"}) => ev.why # "GrantInProgress"

\* C30 (iteration of an inconsistent CoilStore): for every CRC-valid
\* function-15 frame, whatever its quantity of outputs, iterating the
\* CoilStore terminates normally and yields exactly count values; no index
\* is out of bounds.
CoilIterationTotal ==
    (ev.op = "iter" /\ ev.variant = "SetCoils") =>
        /\ ev.out # <<"Panic">>
        /\ ~panicked
        /\ Len(ev.out) = LastResult.res[2].request.count

\* the CRC-16/MODBUS computed bit by bit: init 0xFFFF; each byte is xored
\* into the low byte and the register shifted right 8 times, xoring 0xA001
\* in whenever a 1 is shifted out; no final xor
RECURSIVE BitwiseCrc(_, _, _)
BitwiseCrc(c, data, i) ==
    IF i > Len(data) \/ c < 0 THEN c
    ELSE BitwiseCrc(CrcShift((c - (c % 256)) + Xor8(c % 256, data[i], 8), 8),
                    data, i + 1)

\* C31 (crc_valid): crc_valid(data) is true exactly when the CRC-16/MODBUS
\* of all bytes of data but the last two equals the little-endian 16-bit
\* value of the last two; and that comparison is equivalent to the CRC of
\* the whole of data being zero.
CrcValidIsTrailerMatch ==
    (ev.op = "crc") =>
        LET n    == Len(ev.data)
            body == SubSeq(ev.data, 1, n - 2)
            same == BitwiseCrc(65535, body, 1) = ev.data[n - 1] + 256 * ev.data[n]
        IN  /\ ev.out = same
            /\ same = (BitwiseCrc(65535, ev.data, 1) = 0)

\* the frame of fn1_crc_correct was accepted
CrcValidIsTrailerMatchWitness ==
    /\ ev.op = "crc"
    /\ ev.data = <<17, 1, 0, 19, 0, 37, 14, 132>>
    /\ ev.out

\* C32 (no waker outlives its pull): the waker field is Some only while a
\* pull is suspended; when a poll returns a result no waker is stored, and
\* an on_data_received wakes a task only when that task waits in next().
WakerOnlyWhileSuspended ==
    ~panicked =>
        /\ IsSome(waker) => pc = "suspended"
        /\ (ev.op = "ingest" /\ IsSome(ev.woken)) => pc = "suspended"

\* C33 (the draft lib.rs, two frames back to back): when two CRC-valid
\* frames of supported function codes are ingested before the first pull,
\* the first two calls of next() return the first and then the second
\* frame, each decoded with its own length: the length stored for the
\* first frame is not applied to the second.
DraftBackToBack ==
    (/\ ev.op = "poll"
     /\ Len(wire) = 2 /\ ValidStream /\ NoWrap
     /\ feed \in {"single", "split"}
     /\ Pulled <= 2) =>
        /\ ev.out = "Ready"
        /\ IsOk(LastResult.res)
        /\ LastResult.first = FrameStart(Len(results))
        /\ ev.frame_len = FrameLen(Len(results))

====
